---- MODULE Spec2Model ----
(***************************************************************************)
(* A model of childespython: Transcript.get_cleaned_transcript,            *)
(* Transcript.get_structured_transcript, Transcript.get_frequencies,       *)
(* Transcript.compute_ttr_from_frequencies (transcript.py) and tokenize    *)
(* (util.py).                                                              *)
(*                                                                         *)
(* A Python str is a sequence of one-character strings, a list is a        *)
(* sequence, a dict is a sequence of <<key, value>> pairs in insertion     *)
(* order, None is <<>> and an int n that may also be None is <<n>>.        *)
(***************************************************************************)
EXTENDS Integers, Sequences, FiniteSets, TLC

VARIABLES
    pc,                     \* position in the code
    recording,              \* self.recording: the raw lines
    i,                      \* get_cleaned_transcript: index of the next raw line
    cleaned_up_transcript,  \* get_cleaned_transcript: the merged lines
    body_of_transcript,     \* get_structured_transcript: the '*' and '%' lines
    k,                      \* get_structured_transcript: index of the next body line
    structured_transcript,  \* get_structured_transcript: the entries appended
    current_entry,          \* get_structured_transcript: the entry in progress
    id_counter,             \* get_structured_transcript: id_counter
    text,                   \* tokenize: text
    ignore_list,            \* tokenize: list_of_strings_to_be_ignored
    raws,                   \* tokenize: text.split()
    r,                      \* tokenize: index of the next raw token
    cleaned,                \* tokenize: cleaned
    stripping,              \* tokenize: stripping
    passes,                 \* tokenize: iterations of the while loop on this token
    tokens,                 \* tokenize: the tokens yielded so far
    first_tokens,           \* the tokens of the first call, None during it
    speaker,                \* get_frequencies: speaker
    tier,                   \* get_frequencies: tier
    pattern,                \* get_frequencies: pattern
    match_type,             \* get_frequencies: match_type
    filtered_segments,      \* get_frequencies: filtered_segments
    seg,                    \* get_frequencies: index of the next filtered segment
    word_counts,            \* get_frequencies: word_counts
    frequencies,            \* get_frequencies: the table returned, None before
    frequency_dictionary,   \* compute_ttr_from_frequencies: frequency_dictionary
    ttr                     \* compute_ttr_from_frequencies: the value returned, in hundredths

parse_vars == <<recording, i, cleaned_up_transcript, body_of_transcript, k,
                structured_transcript, current_entry, id_counter>>

tok_vars == <<text, ignore_list, raws, r, cleaned, stripping, passes, tokens,
              first_tokens>>

freq_vars == <<speaker, tier, pattern, match_type, filtered_segments, seg, word_counts,
               frequencies>>

ttr_vars == <<frequency_dictionary, ttr>>

vars == <<pc, parse_vars, tok_vars, freq_vars, ttr_vars>>

----------------------------------------------------------------------------
(* Bounds and inputs *)

\* longest recording (in raw lines) drawn for the parser
MaxLines == 3

None == <<>>

\* the raw lines a recording is drawn from
RawLines == {
    <<"*", "C", ":", "\t", "a", "\n">>,      \* speaker line of *C
    <<"*", "M", ":", "\t", "b">>,            \* speaker line of *M
    <<"%", "m", ":", "\t", "x", "\n">>,      \* dependent line %m
    <<"%", "m", ":", "\t", "z">>,            \* %m again, with another text
    <<"%", "g", ":", "\t", "y">>,            \* dependent line %g
    <<"%", "*", ":", "\t", "w">>,            \* dependent line whose marker holds a '*'
    <<"*", "C", ":", "\t", "\n">>,           \* speaker line with no text: strip() removes the tab
    <<"%", "g", ":">>,                       \* dependent line with no tab
    <<"@", "H">>,                            \* header line
    <<" ", "c", "\n">>,                      \* continuation line
    <<"\n">> }                               \* empty line

Recordings == UNION { [1..n -> RawLines] : n \in 0..MaxLines }

----------------------------------------------------------------------------
(* str and dict operations *)

Whitespace == {" ", "\t", "\n"}

Chars(s) == {s[j] : j \in DOMAIN s}

RECURSIVE lstrip(_, _)
lstrip(s, cs) == IF s # <<>> /\ Head(s) \in cs THEN lstrip(Tail(s), cs) ELSE s

RECURSIVE rstrip(_, _)
rstrip(s, cs) ==
    IF s # <<>> /\ s[Len(s)] \in cs THEN rstrip(SubSeq(s, 1, Len(s) - 1), cs) ELSE s

strip(s, cs) == rstrip(lstrip(s, cs), cs)

startswith(s, p) == Len(p) <= Len(s) /\ SubSeq(s, 1, Len(p)) = p

endswith(s, p) == Len(p) <= Len(s) /\ SubSeq(s, Len(s) - Len(p) + 1, Len(s)) = p

Min(S) == CHOOSE x \in S : \A y \in S : x <= y

\* s.split('\t', 1)
split_tab(s) ==
    LET tabs == {j \in DOMAIN s : s[j] = "\t"}
    IN  IF tabs = {} THEN <<s>>
        ELSE <<SubSeq(s, 1, Min(tabs) - 1), SubSeq(s, Min(tabs) + 1, Len(s))>>

DictKeys(d) == {d[j][1] : j \in DOMAIN d}

DictGet(d, key) == d[CHOOSE j \in DOMAIN d : d[j][1] = key][2]

\* d.update({key: value})
DictUpdate(d, key, value) ==
    IF key \in DictKeys(d)
    THEN [j \in DOMAIN d |-> IF d[j][1] = key THEN <<key, value>> ELSE d[j]]
    ELSE Append(d, <<key, value>>)

----------------------------------------------------------------------------
(* Transcript.get_cleaned_transcript *)

IsMarked(line) ==
    \/ startswith(line, <<"@">>)
    \/ startswith(line, <<"*">>)
    \/ startswith(line, <<"%">>)

\* CleanStep without the `else` of line 53: a leading unmarked line is lost
CleanStepDropsLeading(merged, raw) ==
    LET line == strip(raw, Whitespace)
    IN  IF IsMarked(line) THEN Append(merged, line)
        ELSE IF merged # <<>>
             THEN [merged EXCEPT ![Len(merged)] = @ \o <<" ">> \o line]
             ELSE merged

\* one iteration of the loop over self.recording
CleanStep(merged, raw) ==
    LET line == strip(raw, Whitespace)
    IN  IF IsMarked(line) THEN Append(merged, line)
        ELSE IF merged # <<>>
             THEN [merged EXCEPT ![Len(merged)] = @ \o <<" ">> \o line]
             ELSE Append(merged, line)

CleanLine ==
    /\ pc = "clean"
    /\ i <= Len(recording)
    /\ cleaned_up_transcript' = CleanStep(cleaned_up_transcript, recording[i])
    /\ i' = i + 1
    /\ UNCHANGED <<pc, recording, body_of_transcript, k, structured_transcript,
                   current_entry, id_counter>>
    /\ UNCHANGED <<tok_vars, freq_vars, ttr_vars>>

----------------------------------------------------------------------------
(* Transcript.get_structured_transcript *)

EmptyEntry(id) == [id |-> id, speaker_tier |-> <<>>, dependent_tiers |-> <<>>]

IsBody(line) == startswith(line, <<"*">>) \/ startswith(line, <<"%">>)

\* get_cleaned_transcript has returned: lines 109-117
StartParse ==
    /\ pc = "clean"
    /\ i > Len(recording)
    /\ structured_transcript' = <<>>
    /\ current_entry' = EmptyEntry(None)
    /\ body_of_transcript' = SelectSeq(cleaned_up_transcript, IsBody)
    /\ id_counter' = 1
    /\ k' = 1
    /\ pc' = "parse"
    /\ UNCHANGED <<recording, i, cleaned_up_transcript>>
    /\ UNCHANGED <<tok_vars, freq_vars, ttr_vars>>

\* the body of `if "*" in line_parts[0]:` up to the assignment of line 132
SaveCurrent(structured, entry, counter) ==
    IF entry.speaker_tier # <<>>
    THEN [structured |-> Append(structured, entry),
          counter    |-> counter + 1,
          entry      |-> EmptyEntry(<<counter + 1>>)]
    ELSE [structured |-> structured, counter |-> counter, entry |-> entry]

\* a line whose part before the first tab holds a '*'
SpeakerLine ==
    /\ pc = "parse"
    /\ k <= Len(body_of_transcript)
    /\ LET line_parts == split_tab(body_of_transcript[k])
           saved == SaveCurrent(structured_transcript, current_entry, id_counter)
       IN  /\ "*" \in Chars(line_parts[1])
           /\ structured_transcript' = saved.structured
           /\ id_counter' = saved.counter
           /\ IF Len(line_parts) < 2
              THEN \* line_parts[1] raises IndexError
                   /\ current_entry' = saved.entry
                   /\ pc' = "IndexError"
                   /\ k' = k
              ELSE /\ current_entry' =
                         [saved.entry EXCEPT !.speaker_tier =
                             << <<strip(line_parts[1], {":"}), line_parts[2]>> >>]
                   /\ pc' = pc
                   /\ k' = k + 1
    /\ UNCHANGED <<recording, i, cleaned_up_transcript, body_of_transcript>>
    /\ UNCHANGED <<tok_vars, freq_vars, ttr_vars>>

\* a line whose part before the first tab holds a '%' and no '*'
DependentLine ==
    /\ pc = "parse"
    /\ k <= Len(body_of_transcript)
    /\ LET line_parts == split_tab(body_of_transcript[k])
       IN  /\ "*" \notin Chars(line_parts[1])
           /\ "%" \in Chars(line_parts[1])
           /\ IF Len(line_parts) < 2
              THEN \* line_parts[1] raises IndexError
                   /\ pc' = "IndexError"
                   /\ UNCHANGED <<current_entry, k>>
              ELSE /\ current_entry' =
                         [current_entry EXCEPT !.dependent_tiers =
                             DictUpdate(@, strip(line_parts[1], {":"}), line_parts[2])]
                   /\ pc' = pc
                   /\ k' = k + 1
    /\ UNCHANGED <<recording, i, cleaned_up_transcript, body_of_transcript,
                   structured_transcript, id_counter>>
    /\ UNCHANGED <<tok_vars, freq_vars, ttr_vars>>

\* lines 139-143: append the final utterance and return
FinishParse ==
    /\ pc = "parse"
    /\ k > Len(body_of_transcript)
    /\ structured_transcript' =
          IF current_entry.speaker_tier # <<>> \/ current_entry.dependent_tiers # <<>>
          THEN Append(structured_transcript, current_entry)
          ELSE structured_transcript
    /\ pc' = "done"
    /\ UNCHANGED <<recording, i, cleaned_up_transcript, body_of_transcript, k,
                   current_entry, id_counter>>
    /\ UNCHANGED <<tok_vars, freq_vars, ttr_vars>>

----------------------------------------------------------------------------
(* tokenize (util.py) *)

\* the characters c of the model's alphabet with c.isalnum()
Alnum == {"a", "b", "c", "g", "m", "w", "x", "y", "z", "C", "H", "M"}

\* the default of list_of_strings_to_be_ignored
DefaultIgnoreList ==
    << <<",">>, <<".">>, <<"?">>, <<"!">>, <<"(", ".", ")">>, <<"[", "?", "]">> >>

\* s[n:]
SliceFrom(s, n) == SubSeq(s, n + 1, Len(s))

\* s[:-n]; s[:-0] is s[:0], the empty string
SliceToMinus(s, n) == IF n = 0 THEN <<>> ELSE SubSeq(s, 1, Len(s) - n)

\* text.split()
RECURSIVE split(_)
split(s) ==
    LET t == lstrip(s, Whitespace)
        ws == {j \in DOMAIN t : t[j] \in Whitespace}
        e == IF ws = {} THEN Len(t) ELSE Min(ws) - 1
    IN  IF t = <<>> THEN <<>>
        ELSE <<SubSeq(t, 1, e)>> \o split(SliceFrom(t, e))

\* ForIgnores without line 28: stripping a suffix does not ask for another pass
RECURSIVE ForIgnoresSuffixUnflagged(_, _, _)
ForIgnoresSuffixUnflagged(token, ignores, flag) ==
    IF ignores = <<>> THEN [cleaned |-> token, stripping |-> flag]
    ELSE LET ign == Head(ignores)
             pre == startswith(token, ign)
             c1 == IF pre THEN SliceFrom(token, Len(ign)) ELSE token
             suf == endswith(c1, ign)
             c2 == IF suf THEN SliceToMinus(c1, Len(ign)) ELSE c1
         IN  ForIgnoresSuffixUnflagged(c2, Tail(ignores), flag \/ pre)

\* `for ign in list_of_strings_to_be_ignored:` (lines 22-28) from `ignores` on
RECURSIVE ForIgnoresFrom(_, _, _)
ForIgnoresFrom(token, ignores, flag) ==
    IF ignores = <<>> THEN [cleaned |-> token, stripping |-> flag]
    ELSE LET ign == Head(ignores)
             pre == startswith(token, ign)
             c1 == IF pre THEN SliceFrom(token, Len(ign)) ELSE token
             suf == endswith(c1, ign)
             c2 == IF suf THEN SliceToMinus(c1, Len(ign)) ELSE c1
         IN  ForIgnoresFrom(c2, Tail(ignores), flag \/ pre \/ suf)

\* one iteration of `while stripping and cleaned:` (lines 21-28)
ForIgnores(token, ignores, flag) == ForIgnoresFrom(token, ignores, flag)

\* the condition of line 31
Yields(token) == token # <<>> /\ Chars(token) \cap Alnum # {}

\* " ".join(tokens)
RECURSIVE join(_)
join(ts) ==
    IF ts = <<>> THEN <<>>
    ELSE IF Len(ts) = 1 THEN ts[1]
    ELSE ts[1] \o <<" ">> \o join(Tail(ts))

\* the text of the call in progress: the second call gets the first one's tokens,
\* joined with spaces
Argument == IF first_tokens = None THEN text ELSE join(first_tokens[1])

\* line 16
TokSplit ==
    /\ pc = "tok_call"
    /\ raws' = split(Argument)
    /\ r' = 1
    /\ tokens' = <<>>
    /\ pc' = "tok_for"
    /\ UNCHANGED <<text, ignore_list, cleaned, stripping, passes, first_tokens>>
    /\ UNCHANGED <<parse_vars, freq_vars, ttr_vars>>

\* lines 17-19
TokRaw ==
    /\ pc = "tok_for"
    /\ r <= Len(raws)
    /\ cleaned' = raws[r]
    /\ stripping' = TRUE
    /\ passes' = 0
    /\ pc' = "tok_while"
    /\ UNCHANGED <<text, ignore_list, raws, r, tokens, first_tokens>>
    /\ UNCHANGED <<parse_vars, freq_vars, ttr_vars>>

\* lines 20-28
TokPass ==
    /\ pc = "tok_while"
    /\ stripping /\ cleaned # <<>>
    /\ LET res == ForIgnores(cleaned, ignore_list, FALSE)
       IN  /\ cleaned' = res.cleaned
           /\ stripping' = res.stripping
    /\ passes' = passes + 1
    /\ UNCHANGED <<pc, text, ignore_list, raws, r, tokens, first_tokens>>
    /\ UNCHANGED <<parse_vars, freq_vars, ttr_vars>>

\* lines 31-32
TokYield ==
    /\ pc = "tok_while"
    /\ ~(stripping /\ cleaned # <<>>)
    /\ tokens' = IF Yields(cleaned) THEN Append(tokens, cleaned) ELSE tokens
    /\ r' = r + 1
    /\ pc' = "tok_for"
    /\ UNCHANGED <<text, ignore_list, raws, cleaned, stripping, passes, first_tokens>>
    /\ UNCHANGED <<parse_vars, freq_vars, ttr_vars>>

\* the caller of the idempotence property: the first call is exhausted, and its
\* tokens, joined with spaces, are tokenized again
TokAgain ==
    /\ pc = "tok_for"
    /\ r > Len(raws)
    /\ first_tokens = None
    /\ first_tokens' = <<tokens>>
    /\ pc' = "tok_call"
    /\ UNCHANGED <<text, ignore_list, raws, r, cleaned, stripping, passes, tokens>>
    /\ UNCHANGED <<parse_vars, freq_vars, ttr_vars>>

\* the second call is exhausted
TokEnd ==
    /\ pc = "tok_for"
    /\ r > Len(raws)
    /\ first_tokens # None
    /\ pc' = "tok_done"
    /\ UNCHANGED tok_vars
    /\ UNCHANGED <<parse_vars, freq_vars, ttr_vars>>

\* tokenize(text, ignores) as a list
RECURSIVE StripLoop(_, _)
StripLoop(token, ignores) ==
    IF token = <<>> THEN token
    ELSE LET res == ForIgnores(token, ignores, FALSE)
         IN  IF res.stripping THEN StripLoop(res.cleaned, ignores) ELSE res.cleaned

tokenize(s, ignores) ==
    LET words == split(s)
    IN  SelectSeq([j \in DOMAIN words |-> StripLoop(words[j], ignores)], Yields)

----------------------------------------------------------------------------
(* Transcript.get_frequencies, from the return of get_structured_transcript on *)

MatchTypes == {"startswith", "contains", "endswith", "equals"}

Utterance == <<"u", "t", "t", "e", "r", "a", "n", "c", "e">>

\* `pat in s` for strings
contains(s, pat) ==
    \E j \in 0..(Len(s) - Len(pat)) : SubSeq(s, j + 1, j + Len(pat)) = pat

\* lines 218-219: pattern is truthy (neither None nor "") and match_type is unknown
FreqRaise ==
    /\ pc = "done"
    /\ pattern # <<>> /\ match_type \notin MatchTypes
    /\ pc' = "ValueError"
    /\ UNCHANGED <<parse_vars, tok_vars, freq_vars, ttr_vars>>

HasSpeaker(el) == speaker \in DictKeys(el.speaker_tier)

\* lines 216-224
FreqFilter ==
    /\ pc = "done"
    /\ ~(pattern # <<>> /\ match_type \notin MatchTypes)
    /\ word_counts' = <<>>
    /\ filtered_segments' = SelectSeq(structured_transcript, HasSpeaker)
    /\ seg' = 1
    /\ pc' = "count"
    /\ UNCHANGED <<parse_vars, tok_vars, ttr_vars, speaker, tier, pattern, match_type,
                   frequencies>>

\* lines 227-233
SegmentText(el) ==
    IF tier = Utterance THEN DictGet(el.speaker_tier, speaker)
    ELSE IF tier \in DictKeys(el.dependent_tiers) THEN DictGet(el.dependent_tiers, tier)
    ELSE <<>>

\* lines 236-244: the token is skipped by a `continue`
Skipped(token) ==
    IF pattern # <<>>
    THEN IF match_type = "startswith" /\ ~startswith(token, pattern) THEN TRUE
         ELSE IF match_type = "contains" /\ ~contains(token, pattern) THEN TRUE
         ELSE IF match_type = "endswith" /\ ~endswith(token, pattern) THEN TRUE
         ELSE IF match_type = "equals" /\ token # pattern THEN TRUE
         ELSE FALSE
    ELSE FALSE

\* lines 246-249
CountToken(counts, token) ==
    IF token \in DictKeys(counts)
    THEN [j \in DOMAIN counts |->
            IF counts[j][1] = token THEN <<token, counts[j][2] + 1>> ELSE counts[j]]
    ELSE Append(counts, <<token, 1>>)

\* lines 235-249: `for token in tokenize(text):`
RECURSIVE CountTokens(_, _)
CountTokens(counts, toks) ==
    IF toks = <<>> THEN counts
    ELSE CountTokens(IF Skipped(Head(toks)) THEN counts ELSE CountToken(counts, Head(toks)),
                     Tail(toks))

\* lines 226-249: one filtered segment
FreqSegment ==
    /\ pc = "count"
    /\ seg <= Len(filtered_segments)
    /\ word_counts' =
          CountTokens(word_counts,
                      tokenize(SegmentText(filtered_segments[seg]), DefaultIgnoreList))
    /\ seg' = seg + 1
    /\ UNCHANGED <<pc, parse_vars, tok_vars, ttr_vars, speaker, tier, pattern, match_type,
                   filtered_segments, frequencies>>

\* InsertDesc placing the item before the items of equal count: not stable
InsertDescBeforeEqual(items, item) ==
    LET n == Cardinality({j \in DOMAIN items : items[j][2] > item[2]})
    IN  SubSeq(items, 1, n) \o <<item>> \o SubSeq(items, n + 1, Len(items))

\* one item into a list sorted by decreasing count, after the items of equal count
InsertDesc(items, item) ==
    LET n == Cardinality({j \in DOMAIN items : items[j][2] >= item[2]})
    IN  SubSeq(items, 1, n) \o <<item>> \o SubSeq(items, n + 1, Len(items))

\* sorted(items, key=lambda item: item[1], reverse=True): a stable sort
RECURSIVE sorted_desc(_)
sorted_desc(items) ==
    IF items = <<>> THEN <<>>
    ELSE InsertDesc(sorted_desc(SubSeq(items, 1, Len(items) - 1)), items[Len(items)])

\* line 251
FreqReturn ==
    /\ pc = "count"
    /\ seg > Len(filtered_segments)
    /\ frequencies' = <<sorted_desc(word_counts)>>
    /\ pc' = "freq_done"
    /\ UNCHANGED <<parse_vars, tok_vars, ttr_vars, speaker, tier, pattern, match_type,
                   filtered_segments, seg, word_counts>>

----------------------------------------------------------------------------
(* Transcript.compute_ttr_from_frequencies *)

\* the k in 0..99 for which round((2k+1)/200, 2) is (k+1)/100: the double nearest to
\* (2k+1)/200 is above it, or is it (k = 12, 37, 62, 87) and k is odd
TiesRoundedUp ==
    {0, 2, 3, 5, 6, 8, 9, 11, 13, 16, 19, 22, 25, 26, 27, 31, 32, 33, 37, 38, 39, 40,
     44, 45, 46, 50, 51, 52, 53, 54, 55, 63, 64, 65, 66, 67, 68, 75, 76, 77, 78, 79,
     80, 87, 88, 89, 90, 91, 92, 93}

\* Round2 rounding toward zero
Round2Down(num, den) == (100 * num) \div den

\* round(num / den, 2) in hundredths, for 0 <= num <= den, den > 0
Round2(num, den) ==
    LET q == (100 * num) \div den
        rest == (100 * num) % den
    IN  IF 2 * rest < den THEN q
        ELSE IF 2 * rest > den THEN q + 1
        ELSE IF q \in TiesRoundedUp THEN q + 1 ELSE q

RECURSIVE SumValues(_)
SumValues(d) == IF d = <<>> THEN 0 ELSE d[1][2] + SumValues(Tail(d))

\* lines 266-269
ComputeTtr ==
    /\ pc = "ttr_call"
    /\ LET num_types == Len(frequency_dictionary)
           num_tokens == SumValues(frequency_dictionary)
       IN  ttr' = IF num_tokens > 0 THEN <<Round2(num_types, num_tokens)>> ELSE <<0>>
    /\ pc' = "ttr_done"
    /\ UNCHANGED <<parse_vars, tok_vars, freq_vars, frequency_dictionary>>

----------------------------------------------------------------------------
(* tokenize, then tokenize its output, on a text and an ignore list *)

\* longest text drawn for tokenize
MaxTextLen == 4

TextChars == {"a", ".", "(", ")", " "}

Texts == UNION { [1..n -> TextChars] : n \in 0..MaxTextLen }

IgnoreLists == {
    DefaultIgnoreList,
    <<>>,
    << <<>> >>,
    << <<"a">> >>,
    << <<".", "a">>, <<".">> >>,
    << <<"(">>, <<"(", ".", ")">> >>,
    << <<"a", ".">>, <<"a">>, <<")">> >> }

TokIdle ==
    /\ text = <<>>
    /\ ignore_list = <<>>
    /\ raws = <<>>
    /\ r = 1
    /\ cleaned = <<>>
    /\ stripping = FALSE
    /\ passes = 0
    /\ tokens = <<>>
    /\ first_tokens = None

ParseIdle ==
    /\ recording = <<>>
    /\ i = 1
    /\ cleaned_up_transcript = <<>>
    /\ body_of_transcript = <<>>
    /\ k = 1
    /\ structured_transcript = <<>>
    /\ current_entry = EmptyEntry(None)
    /\ id_counter = 1

FreqIdle ==
    /\ speaker = <<>>
    /\ tier = <<>>
    /\ pattern = <<>>
    /\ match_type = "contains"
    /\ filtered_segments = <<>>
    /\ seg = 1
    /\ word_counts = <<>>
    /\ frequencies = None

TtrIdle ==
    /\ frequency_dictionary = <<>>
    /\ ttr = None

InitTok ==
    /\ pc = "tok_call"
    /\ text \in Texts
    /\ ignore_list \in IgnoreLists
    /\ raws = <<>>
    /\ r = 1
    /\ cleaned = <<>>
    /\ stripping = FALSE
    /\ passes = 0
    /\ tokens = <<>>
    /\ first_tokens = None
    /\ ParseIdle
    /\ FreqIdle
    /\ TtrIdle

NextTok ==
    \/ TokSplit
    \/ TokRaw
    \/ TokPass
    \/ TokYield
    \/ TokAgain
    \/ TokEnd

SpecTok == InitTok /\ [][NextTok]_vars

\* C7: tokenize is idempotent: its tokens, joined with spaces and tokenized again
\* with the same ignore list, come out unchanged; no token yielded has an ignore
\* string as a prefix or a suffix; the stripping loop ends on every token (each
\* iteration but the last shortens it).
C7_TokenizeIdempotent ==
    /\ pc = "tok_done" => tokens = first_tokens[1]
    /\ \A n \in DOMAIN tokens : \A m \in DOMAIN ignore_list :
          /\ ~startswith(tokens[n], ignore_list[m])
          /\ ~endswith(tokens[n], ignore_list[m])
    /\ pc = "tok_while" => passes <= Len(raws[r]) + 1

\* both calls yielded the same two tokens, the first call having stripped one
C7_Witness ==
    /\ pc = "tok_done"
    /\ Len(split(text)) = 2
    /\ Len(tokens) = 2
    /\ split(text) # tokens
    /\ first_tokens = <<tokens>>

----------------------------------------------------------------------------
(* get_structured_transcript() on a recording *)

Init ==
    /\ TokIdle
    /\ FreqIdle
    /\ TtrIdle
    /\ recording \in Recordings
    /\ pc = "clean"
    /\ i = 1
    /\ cleaned_up_transcript = <<>>
    /\ body_of_transcript = <<>>
    /\ k = 1
    /\ structured_transcript = <<>>
    /\ current_entry = EmptyEntry(None)
    /\ id_counter = 1

Next ==
    \/ CleanLine
    \/ StartParse
    \/ SpeakerLine
    \/ DependentLine
    \/ FinishParse

Spec == Init /\ [][Next]_vars

----------------------------------------------------------------------------
(* Properties of get_cleaned_transcript *)

Stripped(j) == strip(recording[j], Whitespace)

\* the raw lines that start a merged line
Starts ==
    {j \in DOMAIN recording : IsMarked(Stripped(j))}
        \cup (IF recording # <<>> /\ ~IsMarked(Stripped(1)) THEN {1} ELSE {})

NthOf(S, n) == CHOOSE s \in S : Cardinality({t \in S : t <= s}) = n

\* the last raw line merged into the n-th merged line
LastOf(n) ==
    IF n < Cardinality(Starts) THEN NthOf(Starts, n + 1) - 1 ELSE Len(recording)

\* Stripped(from), then a space and Stripped(j) for j = from+1 .. to
RECURSIVE Merged(_, _)
Merged(from, to) ==
    IF to = from THEN Stripped(from)
    ELSE Merged(from, to - 1) \o <<" ">> \o Stripped(to)

CleanReturned == pc \in {"parse", "IndexError", "done"}

\* C5: get_cleaned_transcript returns one merged line per raw line that, stripped,
\* starts with '@', '*' or '%', plus a leading one when the first raw line is
\* unmarked; each is its stripped starting line followed by a space and the stripped
\* content of every unmarked line up to the next marker line, in order; empty input
\* gives an empty list.
C5_MergedLines ==
    CleanReturned =>
        /\ Len(cleaned_up_transcript) = Cardinality(Starts)
        /\ \A n \in DOMAIN cleaned_up_transcript :
              cleaned_up_transcript[n] = Merged(NthOf(Starts, n), LastOf(n))
        /\ (recording = <<>> => cleaned_up_transcript = <<>>)

\* a leading unmarked line, then a marker line with a continuation merged into it
C5_Witness ==
    /\ CleanReturned
    /\ Len(recording) = 3
    /\ ~IsMarked(Stripped(1))
    /\ IsMarked(Stripped(2))
    /\ ~IsMarked(Stripped(3))
    /\ Stripped(3) # <<>>
    /\ Len(cleaned_up_transcript) = 2
    /\ cleaned_up_transcript[2] = Stripped(2) \o <<" ">> \o Stripped(3)

----------------------------------------------------------------------------
(* Properties of get_structured_transcript *)

\* the body lines that start with '*'
Stars == {j \in DOMAIN body_of_transcript : startswith(body_of_transcript[j], <<"*">>)}

\* marker -> text of a body line
Pair(line) == <<strip(split_tab(line)[1], {":"}), split_tab(line)[2]>>

Pairs(d) == {d[j] : j \in DOMAIN d}

\* C1: the n-th utterance returned has id n, the first one included.
C1_DenseIds ==
    pc = "done" =>
        \A n \in DOMAIN structured_transcript : structured_transcript[n].id = <<n>>

\* C2: every utterance returned has exactly one speaker marker -> text entry; none
\* has dependent tiers only.
C2_SpeakerTierNonEmpty ==
    pc = "done" =>
        \A n \in DOMAIN structured_transcript :
            Len(structured_transcript[n].speaker_tier) = 1

\* C3: a '%' line before the first '*' line is discarded: every dependent tier of
\* every utterance returned comes from a '%' line after the first '*' line.
C3_LeadingAnnotationsDiscarded ==
    pc = "done" =>
        \A n \in DOMAIN structured_transcript :
            \A p \in Pairs(structured_transcript[n].dependent_tiers) :
                \E m \in DOMAIN body_of_transcript :
                    /\ Stars # {}
                    /\ m > Min(Stars)
                    /\ startswith(body_of_transcript[m], <<"%">>)
                    /\ Pair(body_of_transcript[m]) = p

\* C4: as many utterances are returned as there are merged lines starting with '*'.
C4_UtteranceCount ==
    pc = "done" =>
        Len(structured_transcript) =
            Cardinality({j \in DOMAIN cleaned_up_transcript :
                            startswith(cleaned_up_transcript[j], <<"*">>)})

\* the '%' lines between the n-th '*' line and the next one
Between(n) ==
    {m \in DOMAIN body_of_transcript :
        /\ m > NthOf(Stars, n)
        /\ n < Cardinality(Stars) => m < NthOf(Stars, n + 1)}

\* their marker -> text pairs, a repeated marker keeping its last text
LastPairs(n) ==
    {Pair(body_of_transcript[m]) : m \in
        {m \in Between(n) : \A m2 \in Between(n) :
            m2 > m => Pair(body_of_transcript[m2])[1] # Pair(body_of_transcript[m])[1]}}

\* C10: the n-th utterance returned has the marker and text of the n-th '*' line as
\* its speaker tier and exactly the '%' lines between the n-th and the (n+1)-th '*'
\* line as its dependent tiers.  (That an entry appended is not changed by later
\* lines is AppendedEntriesKept below.)
C10_Segmentation ==
    pc = "done" =>
        /\ Len(structured_transcript) = Cardinality(Stars)
        /\ \A n \in DOMAIN structured_transcript :
              n <= Cardinality(Stars) =>
                /\ structured_transcript[n].speaker_tier =
                      << Pair(body_of_transcript[NthOf(Stars, n)]) >>
                /\ Pairs(structured_transcript[n].dependent_tiers) = LastPairs(n)

\* an entry appended to structured_transcript is not changed by a later line
AppendedEntriesKept ==
    [][\A n \in DOMAIN structured_transcript :
          /\ n \in DOMAIN structured_transcript'
          /\ structured_transcript'[n] = structured_transcript[n]]_vars

----------------------------------------------------------------------------
(* get_frequencies(speaker, tier, pattern, match_type) on a recording *)

\* longest recording (in raw lines) drawn for get_frequencies
MaxFreqLines == 2

FreqLines == {
    <<"*", "C", ":", "\t", "a", " ", "b", " ", "b">>,
    <<"*", "C", ":", "\t", "b", ".", " ", "a", "b", " ", ".", "\n">>,
    <<"*", "M", ":", "\t", "a", " ", "?">>,
    <<"%", "m", ":", "\t", "a", "b", " ", "a", "\n">>,
    <<"%", "m", ":">>,
    <<" ", "a", "!">> }

FreqRecordings == UNION { [1..n -> FreqLines] : n \in 0..MaxFreqLines }

\* the empty pattern stands for None and for ""
Patterns == { <<>>, <<"a">>, <<"b">> }

InitFreq ==
    /\ pc = "clean"
    /\ recording \in FreqRecordings
    /\ i = 1
    /\ cleaned_up_transcript = <<>>
    /\ body_of_transcript = <<>>
    /\ k = 1
    /\ structured_transcript = <<>>
    /\ current_entry = EmptyEntry(None)
    /\ id_counter = 1
    /\ speaker \in { <<"*", "C">>, <<"*", "M">> }
    /\ tier \in { Utterance, <<"%", "m">> }
    /\ pattern \in Patterns
    /\ match_type \in MatchTypes \cup {"regex"}
    /\ filtered_segments = <<>>
    /\ seg = 1
    /\ word_counts = <<>>
    /\ frequencies = None
    /\ TokIdle
    /\ TtrIdle

NextFreq ==
    \/ CleanLine
    \/ StartParse
    \/ SpeakerLine
    \/ DependentLine
    \/ FinishParse
    \/ FreqRaise
    \/ FreqFilter
    \/ FreqSegment
    \/ FreqReturn

SpecFreq == InitFreq /\ [][NextFreq]_vars

\* C8: with a match_type that is not one of the four, get_frequencies returns no
\* table, whatever the pattern and the transcript.
C8_InvalidMatchTypeRejected ==
    match_type \notin MatchTypes => pc # "freq_done" /\ frequencies = None

\* the token passes the filter
Passes(token) ==
    \/ pattern = <<>>
    \/ match_type = "startswith" /\ startswith(token, pattern)
    \/ match_type = "contains" /\ contains(token, pattern)
    \/ match_type = "endswith" /\ endswith(token, pattern)
    \/ match_type = "equals" /\ token = pattern
    \/ match_type \notin MatchTypes

\* the tokens of the selected tier of the speaker's utterances that pass the filter,
\* in transcript order
RECURSIVE Stream(_)
Stream(entries) ==
    IF entries = <<>> THEN <<>>
    ELSE (IF HasSpeaker(entries[1])
          THEN SelectSeq(tokenize(SegmentText(entries[1]), DefaultIgnoreList), Passes)
          ELSE <<>>) \o Stream(Tail(entries))

Occurrences(s, token) == {n \in DOMAIN s : s[n] = token}

\* C9: the table returned maps each token that passes the filter to the number of
\* its occurrences in the selected tier of the speaker's utterances, is ordered by
\* non-increasing count, and lists tokens of equal count in first-seen order.
C9_FrequencyTable ==
    pc = "freq_done" =>
        LET table == frequencies[1]
            s == Stream(structured_transcript)
        IN  /\ Cardinality(DictKeys(table)) = Len(table)
            /\ DictKeys(table) = Chars(s)
            /\ \A j \in DOMAIN table :
                  /\ table[j][2] = Cardinality(Occurrences(s, table[j][1]))
                  /\ table[j][2] >= 1
            /\ \A a, b \in DOMAIN table :
                  a < b =>
                    /\ table[a][2] >= table[b][2]
                    /\ table[a][2] = table[b][2] =>
                          Min(Occurrences(s, table[a][1])) < Min(Occurrences(s, table[b][1]))

\* a table whose order differs from first-seen order and that holds a tie
C9_Witness ==
    /\ pc = "freq_done"
    /\ Len(frequencies[1]) = 3
    /\ frequencies[1] # word_counts
    /\ frequencies[1][2][2] = frequencies[1][3][2]
    /\ pattern = <<>>

----------------------------------------------------------------------------
(* compute_ttr_from_frequencies on a frequency table *)

\* largest count drawn for a token of the table
MaxCount == 205

FrequencyTables ==
    { <<>> }
        \cup { << <<"a", n>> >> : n \in 1..MaxCount }
        \cup { << <<"a", n>>, <<"b", m>> >> : n \in 1..MaxCount, m \in 1..MaxCount }

InitTtr ==
    /\ pc = "ttr_call"
    /\ frequency_dictionary \in FrequencyTables
    /\ ttr = None
    /\ ParseIdle
    /\ TokIdle
    /\ FreqIdle

NextTtr == ComputeTtr

SpecTtr == InitTtr /\ [][NextTtr]_vars

\* C6 as claimed: a non-empty table gives 0 < TTR <= 1, the empty one 0.
C6_TtrPositive ==
    pc = "ttr_done" =>
        IF frequency_dictionary = <<>> THEN ttr = <<0>>
        ELSE 0 < ttr[1] /\ ttr[1] <= 100

\* C6, amended: a non-empty table gives 0 <= TTR <= 1, TTR being a multiple of 0.01
\* nearest to distinct_count / total_count; the empty table gives 0.
C6_TtrBounds ==
    pc = "ttr_done" =>
        LET num_types == Len(frequency_dictionary)
            num_tokens == SumValues(frequency_dictionary)
            diff == ttr[1] * num_tokens - 100 * num_types
        IN  IF frequency_dictionary = <<>> THEN ttr = <<0>>
            ELSE /\ 0 <= ttr[1] /\ ttr[1] <= 100
                 /\ 2 * diff <= num_tokens
                 /\ -2 * diff <= num_tokens

\* a non-empty table whose TTR is 0.0
C6_Witness ==
    /\ pc = "ttr_done"
    /\ frequency_dictionary # <<>>
    /\ ttr = <<0>>

====
